---- MODULE Spec2Model ----
(***************************************************************************)
(* A model of calmhn: the startup script (main.tsx), the App component     *)
(* (story fetch, transform, three-state view, CVD selector) and its two    *)
(* pure helpers formatTime and getDomain.                                  *)
(*                                                                         *)
(* Conventions for JavaScript values:                                      *)
(*   - a string-or-null / string-or-undefined value is a TLA+ string, with *)
(*     Null standing for null/undefined;                                   *)
(*   - an optional number is <<>> (undefined / NaN) or <<n>>;              *)
(*   - a string that the code parses (objectID, a URL) is a sequence of    *)
(*     one-character strings; getDomain's optional argument and result are *)
(*     <<>> (undefined / null) or <<text>>.                                *)
(***************************************************************************)
EXTENDS Integers, Sequences, FiniteSets, TLC

VARIABLES
    build,          \* "development" | "production": how the bundle was built
    pc,             \* page lifecycle: "unloaded" | "booted" | "mounted"
    cvdParam,       \* main.tsx: params.get('cvd')
    storage,        \* localStorage['cvd-preference']
    dataCvd,        \* document.body's data-cvd attribute
    cvdMode,        \* App state: cvdMode
    stories,        \* App state: stories
    loading,        \* App state: loading
    error,          \* App state: error
    fetchPc,        \* per fetchTopStories call: "idle", "awaitFetch", "awaitJson", "done", "failed"
    algoliaStories, \* data.hits of the fetchTopStories call that last reached the transform
    now,            \* formatTime: Date.now(), in milliseconds
    timestamp,      \* formatTime: its argument, in seconds
    timeText,       \* formatTime: its result
    url,            \* getDomain: its argument
    domain,         \* getDomain: its result
    returned        \* whether the helper under check has returned

vars == <<build, pc, cvdParam, storage, dataCvd, cvdMode, stories, loading, error,
          fetchPc, algoliaStories, now, timestamp, timeText, url, domain, returned>>

appVars == <<build, pc, cvdParam, storage, dataCvd, cvdMode, stories, loading, error,
             fetchPc, algoliaStories>>
timeVars == <<now, timestamp, timeText>>
domainVars == <<url, domain>>
helperVars == <<timeVars, domainVars, returned>>

----------------------------------------------------------------------------
(* Bounds *)

MaxHits == 2

----------------------------------------------------------------------------
(* JavaScript values *)

Null == "<null>"

Undefined == <<>>

Num(n) == <<n>>

KnownModes == {"protanopia", "deuteranopia"}

\* What the query parameter or the storage slot can hold: nothing, a known mode,
\* or some other string.
CvdValues == {Null} \cup KnownModes \cup {"tritanopia"}

\* The values of the selector's three <option>s, after `e.target.value || null`.
SelectorChoices == {Null} \cup KnownModes

Truthy(s) == s # Null /\ s # ""

----------------------------------------------------------------------------
(* The API's records *)

Story(id, title, u, points, author, created, comments) ==
    [objectID |-> id, title |-> title, url |-> u, points |-> points,
     author |-> author, created_at_i |-> created, num_comments |-> comments]

StoryPool ==
    { Story(<<"0", "7">>, "Alpha", "https://www.example.com/x", 5, "ann", 1000, Num(3)),
      Story(<<"1", "2">>, "Beta", Null, 5, "bob", 2000, Undefined),
      Story(<<"4", "1">>, "", "https://a.org/", 20, "dee", 4000, Num(1)),
      Story(<<"5", "2">>, Null, Null, 7, "eve", 5000, Undefined),
      Story(<<"6", "0">>, "Zero", Null, 0, "fay", 6000, Num(2)),
      Story(<<"7", "1">>, "Neg", "not a url", -3, "gus", 7000, Num(0)) }

HitLists == UNION { [1..n -> StoryPool] : n \in 0..MaxHits }

\* The parsed body of a 2xx response: an object with or without a hits array.
Bodies == { [hasHits |-> TRUE, hits |-> h] : h \in HitLists }
          \cup { [hasHits |-> FALSE, hits |-> <<>>] }

\* A value thrown or rejected: an Error with its message, or something that is
\* not an Error.
Thrown(isError, message) == [isError |-> isError, message |-> message]

\* What fetch() can reject with: an Error with a message, an Error without one,
\* a value that is not an Error.
FetchRejections == { Thrown(TRUE, "Failed to fetch"), Thrown(TRUE, ""),
                     Thrown(FALSE, "offline") }

\* What response.json() can reject with.
JsonRejections == { Thrown(TRUE, "Unexpected token < in JSON at position 0") }

----------------------------------------------------------------------------
(* The Story Transformer: filter, map, sort *)

Digits == {"0", "1", "2", "3", "4", "5", "6", "7", "8", "9"}

DigitValue(c) ==
    CASE c = "0" -> 0 [] c = "1" -> 1 [] c = "2" -> 2 [] c = "3" -> 3 [] c = "4" -> 4
      [] c = "5" -> 5 [] c = "6" -> 6 [] c = "7" -> 7 [] c = "8" -> 8 [] c = "9" -> 9

\* parseInt(string) for strings without whitespace, sign or 0x prefix: the value of
\* the longest prefix of decimal digits, NaN (<<>>) when that prefix is empty.
RECURSIVE ParseDigits(_, _, _)
ParseDigits(s, i, acc) ==
    IF i > Len(s) \/ s[i] \notin Digits
    THEN acc
    ELSE ParseDigits(s, i + 1, 10 * acc + DigitValue(s[i]))

ParseInt(s) ==
    IF Len(s) = 0 \/ s[1] \notin Digits THEN Undefined ELSE Num(ParseDigits(s, 1, 0))

\* A filter that forgets the points.
KeepStory_TitleOnly(story) == Truthy(story.title)

\* .filter(story => story.title && story.points)
KeepStory(story) == Truthy(story.title) /\ story.points # 0

\* A wrong wiring of the map: time taken from points.
ToHNStory_TimeFromPoints(story) ==
    [id |-> ParseInt(story.objectID),
     title |-> story.title,
     url |-> story.url,
     score |-> story.points,
     by |-> story.author,
     time |-> story.points,
     descendants |-> story.num_comments]

\* .map(story => ({ id: parseInt(story.objectID), ... }))
ToHNStory(story) ==
    [id |-> ParseInt(story.objectID),
     title |-> story.title,
     url |-> story.url,
     score |-> story.points,
     by |-> story.author,
     time |-> story.created_at_i,
     descendants |-> story.num_comments]

\* The comparator with its operands swapped: ascending.
CompareScore_Ascending(a, b) == a.score - b.score

\* (a, b) => b.score - a.score
CompareScore(a, b) == b.score - a.score

\* Array.prototype.sort is stable: x goes before the first element that the
\* comparator orders strictly after it, and after everything else.
RECURSIVE InsertSorted(_, _)
InsertSorted(x, sorted) ==
    IF sorted = <<>> THEN <<x>>
    ELSE IF CompareScore(Head(sorted), x) > 0
         THEN <<x>> \o sorted
         ELSE <<Head(sorted)>> \o InsertSorted(x, Tail(sorted))

RECURSIVE SortStories(_)
SortStories(list) ==
    IF list = <<>> THEN <<>>
    ELSE InsertSorted(list[Len(list)], SortStories(SubSeq(list, 1, Len(list) - 1)))

RECURSIVE FilterStories(_)
FilterStories(list) ==
    IF list = <<>> THEN <<>>
    ELSE (IF KeepStory(Head(list)) THEN <<Head(list)>> ELSE <<>>)
         \o FilterStories(Tail(list))

MapStories(list) == [i \in 1..Len(list) |-> ToHNStory(list[i])]

ConvertStories(hits) == SortStories(MapStories(FilterStories(hits)))

----------------------------------------------------------------------------
(* The view *)

\* Which of the three returns of App's render is taken.
View ==
    IF loading THEN "loading"
    ELSE IF Truthy(error) THEN "error"
    ELSE "loaded"

\* stories.map((story, index) => ...): the badge shows index + 1, index from 0.
RankBadge(index) == index + 1

RenderedItems ==
    IF View = "loaded"
    THEN [i \in 1..Len(stories) |-> [rank |-> RankBadge(i - 1), story |-> stories[i]]]
    ELSE <<>>

\* The text the error branch shows.
RenderedMessage == IF View = "error" THEN error ELSE Null

----------------------------------------------------------------------------
(* main.tsx: startup *)

\* A startup that never reads the stored value.
StartupAttr_ParamOnly(param, stored) ==
    IF param \in KnownModes THEN param ELSE Null

\* What lines 10-18 leave in the attribute, from a fresh document.
StartupAttr(param, stored) ==
    IF param \in KnownModes THEN param
    ELSE IF stored \in KnownModes THEN stored
    ELSE Null

\* A startup that adopts the parameter without persisting it.
StartupStorage_NotPersisted(param, stored) == stored

StartupStorage(param, stored) ==
    IF param \in KnownModes THEN param ELSE stored

FetchIds == 1..2

\* A page load: a fresh document and script state, then main.tsx up to the
\* render call.  Any fetch of the previous page dies with it.
Load(param) ==
    /\ pc' = "booted"
    /\ cvdParam' = param
    /\ dataCvd' = StartupAttr(param, storage)
    /\ storage' = StartupStorage(param, storage)
    /\ cvdMode' = Null
    /\ stories' = <<>>
    /\ loading' = TRUE
    /\ error' = Null
    /\ fetchPc' = [i \in FetchIds |-> "idle"]
    /\ algoliaStories' = <<>>
    /\ UNCHANGED <<build, helperVars>>

\* How many times React runs a mount effect: StrictMode runs it twice in a
\* development build and once in a production build.
EffectRuns == IF build = "development" THEN 2 ELSE 1

\* The runs of the mount effect that React has torn down again: StrictMode
\* unmounts and remounts the component after the first run, and the effect
\* returns no cleanup, so every run but the last belongs to a torn-down mount
\* whose fetchTopStories call is still pending.
TornDownRuns == 1..(EffectRuns - 1)

\* App's first render and its mount effect: each run of the effect calls
\* fetchTopStories, which runs up to its first await.
MountApp ==
    /\ pc = "booted"
    /\ pc' = "mounted"
    /\ cvdMode' = storage
    /\ stories' = <<>>
    /\ loading' = TRUE
    /\ error' = Null
    /\ fetchPc' = [i \in FetchIds |-> IF i <= EffectRuns THEN "awaitFetch" ELSE "idle"]
    /\ UNCHANGED <<build, cvdParam, storage, dataCvd, algoliaStories, helperVars>>

\* catch (err) { setError(...) } finally { setLoading(false) }
ErrorText(err) == IF err.isError THEN err.message ELSE "Something went wrong"

Catch(i, err) ==
    /\ error' = ErrorText(err)
    /\ loading' = FALSE
    /\ fetchPc' = [fetchPc EXCEPT ![i] = "failed"]
    /\ UNCHANGED <<stories, algoliaStories>>

\* fetch() resolves with a response; a non-ok one throws.
FetchResolves(i, ok) ==
    /\ pc = "mounted"
    /\ fetchPc[i] = "awaitFetch"
    /\ IF ok
       THEN /\ fetchPc' = [fetchPc EXCEPT ![i] = "awaitJson"]
            /\ UNCHANGED <<stories, loading, error, algoliaStories>>
       ELSE Catch(i, Thrown(TRUE, "Failed to fetch stories"))
    /\ UNCHANGED <<build, pc, cvdParam, storage, dataCvd, cvdMode, helperVars>>

FetchRejects(i, err) ==
    /\ pc = "mounted"
    /\ fetchPc[i] = "awaitFetch"
    /\ Catch(i, err)
    /\ UNCHANGED <<build, pc, cvdParam, storage, dataCvd, cvdMode, helperVars>>

\* response.json() resolves: data.hits is transformed and stored, or, when there
\* is no hits array, calling .filter on it throws a TypeError.
JsonResolves(i, data) ==
    /\ pc = "mounted"
    /\ fetchPc[i] = "awaitJson"
    /\ IF data.hasHits
       THEN /\ algoliaStories' = data.hits
            /\ stories' = ConvertStories(data.hits)
            /\ loading' = FALSE
            /\ fetchPc' = [fetchPc EXCEPT ![i] = "done"]
            /\ UNCHANGED error
       ELSE Catch(i, Thrown(TRUE, "Cannot read properties of undefined (reading 'filter')"))
    /\ UNCHANGED <<build, pc, cvdParam, storage, dataCvd, cvdMode, helperVars>>

JsonRejects(i, err) ==
    /\ pc = "mounted"
    /\ fetchPc[i] = "awaitJson"
    /\ Catch(i, err)
    /\ UNCHANGED <<build, pc, cvdParam, storage, dataCvd, cvdMode, helperVars>>

\* The selector's onChange; the selector exists only in the loaded view.
HandleCvdChange(mode) ==
    /\ pc = "mounted"
    /\ View = "loaded"
    /\ cvdMode' = mode
    /\ IF Truthy(mode)
       THEN dataCvd' = mode /\ storage' = mode
       ELSE dataCvd' = Null /\ storage' = Null
    /\ UNCHANGED <<build, pc, cvdParam, stories, loading, error, fetchPc, algoliaStories,
                   helperVars>>

HelpersIdle ==
    /\ now = 0 /\ timestamp = 0 /\ timeText = <<>>
    /\ url = <<>> /\ domain = <<>>
    /\ returned = FALSE

AppInit ==
    /\ build \in {"development", "production"}
    /\ pc = "unloaded"
    /\ cvdParam = Null
    /\ storage \in CvdValues
    /\ dataCvd = Null
    /\ cvdMode = Null
    /\ stories = <<>>
    /\ loading = TRUE
    /\ error = Null
    /\ fetchPc = [i \in FetchIds |-> "idle"]
    /\ algoliaStories = <<>>

Init ==
    /\ AppInit
    /\ HelpersIdle

\* One step of the page, with fetch() rejecting with a value from fetchErrors.
Step(fetchErrors) ==
    \/ \E param \in CvdValues : Load(param)
    \/ MountApp
    \/ \E i \in FetchIds, ok \in BOOLEAN : FetchResolves(i, ok)
    \/ \E i \in FetchIds, err \in fetchErrors : FetchRejects(i, err)
    \/ \E i \in FetchIds, data \in Bodies : JsonResolves(i, data)
    \/ \E i \in FetchIds, err \in JsonRejections : JsonRejects(i, err)
    \/ \E mode \in SelectorChoices : HandleCvdChange(mode)

Next == Step(FetchRejections)

Spec == Init /\ [][Next]_vars

\* The same page where every rejection of fetch() is an Error with a message, as
\* the rejections of a browser's own fetch() are.
NextWithMessages == Step({ err \in FetchRejections : err.isError /\ err.message # "" })

SpecWithMessages == Init /\ [][NextWithMessages]_vars

----------------------------------------------------------------------------
(* formatTime *)

MaxHours == 75

\* A piece of fixed text, and the template `${n}${suffix}`.
Literal(text) == <<text>>

Template(n, suffix) == <<n, suffix>>

\* now = Date.now() / 1000; diff = now - timestamp; Math.floor(diff / 3600),
\* with Date.now() in whole milliseconds.
ElapsedHours(nowMs, ts) == (nowMs - 1000 * ts) \div (3600 * 1000)

\* formatTime without the `days === 1` special case.
FormatTime_NoSingularDay(nowMs, ts) ==
    LET hours == ElapsedHours(nowMs, ts)
        days == hours \div 24
    IN  IF hours < 1 THEN Literal("just now")
        ELSE IF hours = 1 THEN Literal("1 hour ago")
        ELSE IF hours < 24 THEN Template(hours, " hours ago")
        ELSE Template(days, " days ago")

FormatTime(nowMs, ts) ==
    LET hours == ElapsedHours(nowMs, ts)
        days == hours \div 24
    IN  IF hours < 1 THEN Literal("just now")
        ELSE IF hours = 1 THEN Literal("1 hour ago")
        ELSE IF hours < 24 THEN Template(hours, " hours ago")
        ELSE IF days = 1 THEN Literal("1 day ago")
        ELSE Template(days, " days ago")

\* The clock, in milliseconds, and timestamps from one hour ahead of it to
\* MaxHours behind it, on and around the hour boundaries.
ClockValues == {360000 * 1000, 360000 * 1000 + 999}

TimestampValues ==
    { 360000 - 3600 * k - d : k \in (-1)..MaxHours, d \in {0, 1, 3599} }

TimeInit ==
    /\ now \in ClockValues
    /\ timestamp \in TimestampValues
    /\ timeText = <<>>
    /\ returned = FALSE
    /\ url = <<>> /\ domain = <<>>
    /\ build = "production" /\ pc = "unloaded" /\ cvdParam = Null /\ storage = Null
    /\ dataCvd = Null /\ cvdMode = Null /\ stories = <<>> /\ loading = TRUE
    /\ error = Null /\ fetchPc = [i \in FetchIds |-> "idle"] /\ algoliaStories = <<>>

CallFormatTime ==
    /\ ~returned
    /\ timeText' = FormatTime(now, timestamp)
    /\ returned' = TRUE
    /\ UNCHANGED <<appVars, now, timestamp, domainVars>>

TimeNext == CallFormatTime

SpecTime == TimeInit /\ [][TimeNext]_vars

----------------------------------------------------------------------------
(* getDomain *)

MaxHostLen == 6

HostChars == {"w", "W", ".", "a"}

Https == <<"h", "t", "t", "p", "s", ":", "/", "/">>

LowerChar(c) == IF c = "W" THEN "w" ELSE c

StartsWith(s, prefix) ==
    Len(s) >= Len(prefix) /\ SubSeq(s, 1, Len(prefix)) = prefix

\* The first index at or after `from` where s holds c, Len(s) + 1 when none.
RECURSIVE IndexOfChar(_, _, _)
IndexOfChar(s, c, from) ==
    IF from > Len(s) THEN Len(s) + 1
    ELSE IF s[from] = c THEN from
    ELSE IndexOfChar(s, c, from + 1)

\* new URL(text), for texts made of an optional https:// prefix, host characters
\* and slashes: it throws (ok = FALSE) without the scheme or with an empty host;
\* otherwise hostname is the text between the scheme and the next slash, lower-cased.
ParseURL(text) ==
    IF ~StartsWith(text, Https) THEN [ok |-> FALSE, hostname |-> <<>>]
    ELSE LET rest == SubSeq(text, Len(Https) + 1, Len(text))
             host == SubSeq(rest, 1, IndexOfChar(rest, "/", 1) - 1)
         IN  IF host = <<>> THEN [ok |-> FALSE, hostname |-> <<>>]
             ELSE [ok |-> TRUE, hostname |-> [i \in 1..Len(host) |-> LowerChar(host[i])]]

\* The first index where pattern occurs in s, 0 when it does not.
RECURSIVE IndexOf(_, _, _)
IndexOf(s, pattern, from) ==
    IF from + Len(pattern) - 1 > Len(s) THEN 0
    ELSE IF SubSeq(s, from, from + Len(pattern) - 1) = pattern THEN from
    ELSE IndexOf(s, pattern, from + 1)

\* String.prototype.replace with a string pattern: the first occurrence only.
Replace(s, pattern, replacement) ==
    LET i == IndexOf(s, pattern, 1)
    IN  IF i = 0 THEN s
        ELSE SubSeq(s, 1, i - 1) \o replacement \o SubSeq(s, i + Len(pattern), Len(s))

WwwDot == <<"w", "w", "w", ".">>

GetDomain(u) ==
    IF u = <<>> \/ u[1] = <<>> THEN <<>>
    ELSE LET parsed == ParseURL(u[1])
         IN  IF parsed.ok THEN <<Replace(parsed.hostname, WwwDot, <<>>)>> ELSE <<>>

HostNames == UNION { [1..n -> HostChars] : n \in 0..MaxHostLen }

UrlTexts ==
    { scheme \o host \o path :
        scheme \in {<<>>, Https}, host \in HostNames, path \in {<<>>, <<"/", "a">>} }

DomainInit ==
    /\ url \in {<<>>} \cup { <<t>> : t \in UrlTexts }
    /\ domain = <<>>
    /\ returned = FALSE
    /\ now = 0 /\ timestamp = 0 /\ timeText = <<>>
    /\ build = "production" /\ pc = "unloaded" /\ cvdParam = Null /\ storage = Null
    /\ dataCvd = Null /\ cvdMode = Null /\ stories = <<>> /\ loading = TRUE
    /\ error = Null /\ fetchPc = [i \in FetchIds |-> "idle"] /\ algoliaStories = <<>>

CallGetDomain ==
    /\ ~returned
    /\ domain' = GetDomain(url)
    /\ returned' = TRUE
    /\ UNCHANGED <<appVars, timeVars, url>>

DomainNext == CallGetDomain

SpecDomain == DomainInit /\ [][DomainNext]_vars

----------------------------------------------------------------------------
(* Properties *)

FetchSucceeded == \E i \in FetchIds : fetchPc[i] = "done"

FetchFailed == \E i \in FetchIds : fetchPc[i] = "failed"

Occurrences(list, x) == Cardinality({ i \in DOMAIN list : list[i] = x })

\* The value of a string of decimal digits, read from its last digit.
RECURSIVE DecimalValue(_)
DecimalValue(s) ==
    IF s = <<>> THEN 0
    ELSE 10 * DecimalValue(SubSeq(s, 1, Len(s) - 1)) + DigitValue(s[Len(s)])

HasTitleAndScore(hit) == hit.title # Null /\ hit.title # "" /\ hit.points # 0

DisplayOf(hit) ==
    [id |-> Num(DecimalValue(hit.objectID)),
     title |-> hit.title,
     url |-> hit.url,
     score |-> hit.points,
     by |-> hit.author,
     time |-> hit.created_at_i,
     descendants |-> hit.num_comments]

\* C1: after a successful fetch the stored list holds exactly one entry per hit
\* that has a non-empty title and a non-zero score, none for any other hit, and
\* each entry carries the hit's title, url, points, author, created_at_i and
\* num_comments, with the identifier the integer value of the hit's objectID.
C1_TransformExact ==
    FetchSucceeded =>
        /\ \A i \in DOMAIN stories :
              \E j \in DOMAIN algoliaStories :
                  /\ HasTitleAndScore(algoliaStories[j])
                  /\ stories[i] = DisplayOf(algoliaStories[j])
        /\ \A j \in DOMAIN algoliaStories :
              Occurrences(stories, DisplayOf(algoliaStories[j])) =
                  IF HasTitleAndScore(algoliaStories[j])
                  THEN Occurrences(algoliaStories, algoliaStories[j])
                  ELSE 0

\* A fetch returned one hit that is kept (objectID "07", so id 7) and one that
\* is dropped.
C1_Witness ==
    /\ FetchSucceeded
    /\ Len(algoliaStories) = 2
    /\ Len(stories) = 1
    /\ stories[1].id = Num(7)
    /\ \E j \in DOMAIN algoliaStories : ~HasTitleAndScore(algoliaStories[j])

\* The kept hits with the given score, in the API's order, in display shape.
RECURSIVE HitsWithScore(_, _)
HitsWithScore(hits, v) ==
    IF hits = <<>> THEN <<>>
    ELSE (IF HasTitleAndScore(Head(hits)) /\ Head(hits).points = v
          THEN <<DisplayOf(Head(hits))>> ELSE <<>>)
         \o HitsWithScore(Tail(hits), v)

RECURSIVE StoriesWithScore(_, _)
StoriesWithScore(list, v) ==
    IF list = <<>> THEN <<>>
    ELSE (IF Head(list).score = v THEN <<Head(list)>> ELSE <<>>)
         \o StoriesWithScore(Tail(list), v)

\* C2: after a successful fetch the stored list is sorted non-increasing by
\* score, entries of equal score keep the order they had in the hit list, and the
\* loaded view shows entry i with rank badge i.
C2_SortedStableRanked ==
    FetchSucceeded =>
        /\ \A i, j \in DOMAIN stories : i < j => stories[i].score >= stories[j].score
        /\ \A j \in DOMAIN algoliaStories :
              StoriesWithScore(stories, algoliaStories[j].points) =
                  HitsWithScore(algoliaStories, algoliaStories[j].points)
        /\ View = "loaded" =>
              /\ Len(RenderedItems) = Len(stories)
              /\ \A i \in DOMAIN RenderedItems :
                    RenderedItems[i].rank = i /\ RenderedItems[i].story = stories[i]

\* The API listed a lower score before a higher one, and the view shows both,
\* reordered, with ranks 1 and 2.
C2_Witness ==
    /\ FetchSucceeded
    /\ View = "loaded"
    /\ Len(algoliaStories) = 2
    /\ algoliaStories[1].points < algoliaStories[2].points
    /\ Len(RenderedItems) = 2
    /\ RenderedItems[1].story = DisplayOf(algoliaStories[2])
    /\ RenderedItems[2].rank = 2

\* C3 as stated: every story in view state has a positive score.
C3_PositiveScores == \A i \in DOMAIN stories : stories[i].score > 0

\* C3, amended: every story in view state has a non-zero score, and a hit with a
\* non-empty title and a negative score is kept.
C3_NonZeroScores ==
    /\ \A i \in DOMAIN stories : stories[i].score # 0
    /\ FetchSucceeded =>
          \A j \in DOMAIN algoliaStories :
              (Truthy(algoliaStories[j].title) /\ algoliaStories[j].points < 0)
                  => \E i \in DOMAIN stories : stories[i] = DisplayOf(algoliaStories[j])

\* A story with a negative score is in view state.
C3_Witness ==
    /\ FetchSucceeded
    /\ \E i \in DOMAIN stories : stories[i].score < 0

\* C4 as stated: the view is loading when the component mounts, and once it has
\* left loading it never changes again while the component stays mounted.
C4_ViewTransitions ==
    [][ /\ (pc = "booted" /\ pc' = "mounted") => View' = "loading"
        /\ (pc = "mounted" /\ pc' = "mounted" /\ View # "loading") => View' = View ]_vars

IssuedFetches == Cardinality({ i \in FetchIds : fetchPc[i] # "idle" })

\* C5 as stated: once a fetch has failed the view is the error view with a
\* non-empty message and no list items, and no fetch beyond those of the mount
\* is issued.
C5_FailureShowsError ==
    /\ FetchFailed =>
          /\ View = "error"
          /\ RenderedMessage # Null /\ RenderedMessage # ""
          /\ RenderedItems = <<>>
    /\ pc = "mounted" => IssuedFetches = EffectRuns

\* C6: a page load with a known mode as its cvd parameter leaves the attribute
\* and the stored value equal to the parameter; a load without one, over a stored
\* known mode, leaves the attribute equal to the stored value and the storage as
\* it was.
C6_StartupResolution ==
    [][ pc' = "booted" =>
          IF cvdParam' \in KnownModes
          THEN dataCvd' = cvdParam' /\ storage' = cvdParam'
          ELSE storage \in KnownModes => (dataCvd' = storage /\ storage' = storage) ]_vars

\* The page has just started with ?cvd=protanopia.
C6_Witness ==
    /\ pc = "booted"
    /\ cvdParam = "protanopia"
    /\ dataCvd = "protanopia"
    /\ storage = "protanopia"

\* C7: once the page has started, whenever the storage slot is absent or holds a
\* known mode (as it does throughout any run that starts from such a slot) the
\* attribute equals it, and so does the mode the mounted component holds.
C7_AttrMirrorsStorage ==
    (pc # "unloaded" /\ storage \in {Null} \cup KnownModes) =>
        /\ dataCvd = storage
        /\ pc = "mounted" => cvdMode = storage

\* The page started with ?cvd=protanopia and the user then chose deuteranopia.
C7_Witness ==
    /\ pc = "mounted"
    /\ cvdParam = "protanopia"
    /\ cvdMode = "deuteranopia"
    /\ dataCvd = "deuteranopia"
    /\ storage = "deuteranopia"

\* C8 as stated: the attribute and the mounted component's mode are always unset
\* or a known mode, and both are unset when neither the parameter nor the stored
\* value is a known mode.
C8_UnrecognizedIsUnset ==
    /\ pc # "unloaded" => dataCvd \in {Null} \cup KnownModes
    /\ pc = "mounted" => cvdMode \in {Null} \cup KnownModes
    /\ (pc = "mounted" /\ cvdParam \notin KnownModes /\ storage \notin KnownModes) =>
          (dataCvd = Null /\ cvdMode = Null)

\* C9 as stated: "N days ago" with N = floor(h / 24) for every h above 24.
C9_DaysAboveTwentyFour ==
    returned =>
        LET h == ElapsedHours(now, timestamp)
        IN  timeText =
              IF h < 1 THEN Literal("just now")
              ELSE IF h = 1 THEN Literal("1 hour ago")
              ELSE IF h <= 23 THEN Template(h, " hours ago")
              ELSE IF h = 24 THEN Literal("1 day ago")
              ELSE Template(h \div 24, " days ago")

\* C9, amended: "just now" below one hour, "1 hour ago" at one, "N hours ago"
\* from 2 to 23, "1 day ago" from 24 to 47, and "N days ago" with
\* N = floor(h / 24) from 48 on.
C9_FormatTimeCases ==
    returned =>
        LET h == ElapsedHours(now, timestamp)
        IN  /\ h < 1 => timeText = Literal("just now")
            /\ h = 1 => timeText = Literal("1 hour ago")
            /\ (2 <= h /\ h <= 23) => timeText = Template(h, " hours ago")
            /\ (24 <= h /\ h <= 47) => timeText = Literal("1 day ago")
            /\ h >= 48 => timeText = Template(h \div 24, " days ago")

\* formatTime has returned for a timestamp 25 whole hours old.
C9_Witness ==
    /\ returned
    /\ ElapsedHours(now, timestamp) = 25
    /\ timeText = Literal("1 day ago")

StripLeadingWww(host) ==
    IF StartsWith(host, WwwDot) THEN SubSeq(host, Len(WwwDot) + 1, Len(host)) ELSE host

\* C10 as stated: null for an absent or unparseable URL; otherwise the hostname
\* without a leading "www.", and unchanged when it does not start with "www.".
C10_LeadingWwwOnly ==
    returned =>
        domain =
          IF url = <<>> \/ ~ParseURL(url[1]).ok
          THEN <<>>
          ELSE <<StripLeadingWww(ParseURL(url[1]).hostname)>>

InFlightFetches ==
    Cardinality({ i \in FetchIds : fetchPc[i] \in {"awaitFetch", "awaitJson"} })

\* C11 as stated: a mounted view issues one fetch only, so at most one request
\* is in flight at a time and none is issued twice.
C11_SingleFetch ==
    pc = "mounted" => (IssuedFetches = 1 /\ InFlightFetches <= 1)

\* C12 as stated: when a fetchTopStories call whose mount has been torn down
\* settles, stories, error and loading stay as they were.
C12_TornDownResultDiscarded ==
    [][ \A i \in TornDownRuns :
          (fetchPc[i] \in {"awaitFetch", "awaitJson"} /\ fetchPc'[i] \in {"done", "failed"})
              => (stories' = stories /\ error' = error /\ loading' = loading) ]_vars

\* C13 as stated: in the mounted view a non-null error comes with an empty story
\* list, and once a fetch has succeeded the error is null and the list is shown.
C13_ErrorExcludesStories ==
    pc = "mounted" =>
        /\ error # Null => stories = <<>>
        /\ FetchSucceeded => (error = Null /\ View = "loaded")

====
